---- MODULE Spec2Model ----
(***************************************************************************)
(* Model of proplot's subplots() (src/proplot/subplots.py): the grid       *)
(* set-up, the extents, the shared-axes grouping and the two drawing       *)
(* passes, together with the helpers axes_dict and _paneladd.              *)
(*                                                                         *)
(* Panels are numbered from 0 inside the function (the code's "pseudo      *)
(* numbers"), from 1 in the array.  A grid is a sequence of rows; the cell *)
(* numpy calls array[r, c] is array[r+1][c+1] here.                        *)
(***************************************************************************)
EXTENDS Integers, Sequences, FiniteSets

VARIABLES
    call,         \* which function the behaviour runs: "subplots", "axes_dict", "_paneladd"
    pc,           \* position in that function
    args,         \* the arguments of the call (never assigned after Init)
    array,        \* subplots: the local array, once set up
    nrows, ncols, \* subplots: array.shape
    num_axes,     \* subplots: len(nums)
    row_offset, col_offset, \* subplots: offset returned by _gridspec_kwargs
    yrange, xrange,         \* subplots: row extents, column extents, one pair per panel
    xgroups, xgroups_base,  \* subplots: the recorded x-groups and their bases
    ygroups, ygroups_base,  \* subplots: the recorded y-groups and their bases
    xgroups_sorted, ygroups_sorted, \* subplots: the recorded sort order of each group
    innerpanels_kw,         \* subplots: the resolved panel settings, one entry per panel
    allgroups_base,         \* subplots: the bases the first pass walks
    k,            \* subplots: position of the first pass in allgroups_base
    i,            \* subplots: loop variable of the second pass
    axs,          \* subplots: the list of handles
    fig,          \* the drawing surface: what the factory and the handles were asked
    raised,       \* the exception that ended the call, or "none"
    ret           \* value returned by axes_dict / collected by _paneladd

vars == <<call, pc, args, array, nrows, ncols, num_axes, row_offset, col_offset,
          yrange, xrange, xgroups, xgroups_base, ygroups, ygroups_base,
          allgroups_base, k, i, axs, fig, raised, ret,
          xgroups_sorted, ygroups_sorted, innerpanels_kw>>

(***************************************************************************)
(* Bounds of the model.                                                    *)
(***************************************************************************)
MaxCells == 4     \* a generated grid has at most this many cells
MaxId == 3        \* cells of a generated grid hold 0..MaxId
MaxOffset == 1    \* row and column offsets are 0..MaxOffset
MaxPanels == 3    \* axes_dict: num_axes and the ids of the keys are 1..MaxPanels
MaxKeys == 2      \* axes_dict: a mapping has at most this many keys
MaxStripLen == 3  \* _paneladd: a generated label array has at most this many entries
MaxLabel == 2     \* _paneladd: its labels are 0..MaxLabel

\* The two arrangements the specification walks through by name.
Arrangement5 == << <<1, 2>>, <<1, 3>> >>
Arrangement6 == << <<1, 1, 2>>, <<3, 3, 2>> >>

Shapes == {s \in (1..MaxCells) \X (1..MaxCells) : s[1] * s[2] <= MaxCells}

Grids == UNION {[1..s[1] -> [1..s[2] -> 0..MaxId]] : s \in Shapes}

\* array=None
NoArray == << >>

\* A handle is known by the number= it was created with; None has number 0.
None == [number |-> 0]

Handle(n) == [number |-> n + 1]

\* innerpanels_kw before it is resolved: ref[p] is the dict object panel p's
\* entry refers to, obj the dict objects.
Unresolved == [ref |-> << >>, obj |-> << >>]

Max(S) == CHOOSE m \in S : \A x \in S : x <= m

Min(S) == CHOOSE m \in S : \A x \in S : m <= x

\* The members of S in ascending order.
RECURSIVE Ascending(_)
Ascending(S) == IF S = {} THEN << >> ELSE <<Min(S)>> \o Ascending(S \ {Min(S)})

(***************************************************************************)
(* axes_dict(value, kw).  A value is a scalar or a dict; a dict is the     *)
(* sequence of its <<key, value>> pairs in insertion order, a key the set  *)
(* of the axes numbers it holds (1 is {1}, (2,3) is {2,3}).                *)
(***************************************************************************)
Scalar(v) == [isdict |-> FALSE, val |-> v, items |-> << >>]

Dict(items) == [isdict |-> TRUE, val |-> "", items |-> items]

\* {range(1, num_axes+1): item}
ForAll(n, item) == << <<1..n, item>> >>

\* The dictionary the unfurling starts from, and whether 'Wut.' was raised.
BuildUp(value, kw, n) ==
    IF ~kw
       THEN [wut |-> FALSE,
             items |-> IF ~value.isdict THEN ForAll(n, value) ELSE value.items]
       ELSE LET nested == {value.items[j][2].isdict : j \in 1..Len(value.items)}
            IN IF TRUE \notin nested
                  THEN [wut |-> FALSE, items |-> ForAll(n, Dict(value.items))]
                  ELSE IF FALSE \in nested
                          THEN [wut |-> TRUE, items |-> << >>]
                          ELSE [wut |-> FALSE, items |-> value.items]

\* The key kw_out[...] is written under for axes number num, with num for num-1.
OutKey_Unshifted(num) == num

\* The key kw_out[...] is written under for axes number num.
OutKey(num) == num - 1

\* "for nums, item in value.items(): for num in nums.flat: kw_out[num-1] = item":
\* a later pair overwrites an earlier one.
Unfurl(items) ==
    LET keys == UNION {{OutKey(num) : num \in items[j][1]} : j \in 1..Len(items)}
    IN [q \in keys |->
          LET last == Max({j \in 1..Len(items) : \E num \in items[j][1] : OutKey(num) = q})
          IN items[last][2]]

\* The value of the call: the dense mapping, or the ValueError and the axes
\* numbers its message lists ("only has properties for axes ...").
axes_dict(value, kw, n) ==
    LET b == BuildUp(value, kw, n)
        kw_out == Unfurl(b.items)
    IN IF b.wut
          THEN [raised |-> "InvalidPropertySpec", named |-> {}, kw_out |-> << >>]
          ELSE IF (0..(n - 1)) /= DOMAIN kw_out
                  THEN [raised |-> "InvalidPropertySpec",
                        named |-> {q + 1 : q \in DOMAIN kw_out},
                        kw_out |-> << >>]
                  ELSE [raised |-> "none", named |-> {}, kw_out |-> kw_out]

(***************************************************************************)
(* Array setup.                                                            *)
(***************************************************************************)
\* np.arange(1, nrows*ncols+1).reshape((nrows, ncols), order): 'C' fills
\* row by row, 'F' column by column.
Reshape(nr, nc, rowmajor) ==
    [r \in 1..nr |-> [c \in 1..nc |->
        IF rowmajor THEN (r - 1) * nc + c ELSE (c - 1) * nr + r]]

\* array[:, col-1] = 0 for each col of emptycols, array[row-1, :] = 0 for
\* each row of emptyrows.
Blank(a, emptycols, emptyrows) ==
    [r \in 1..Len(a) |-> [c \in 1..Len(a[1]) |->
        IF c \in emptycols \/ r \in emptyrows THEN 0 ELSE a[r][c]]]

\* np.unique(array[array != 0]), as a set.
Nums(a) == {a[r][c] : r \in 1..Len(a), c \in 1..Len(a[1])} \ {0}

\* tuple(nums.flat) == tuple(range(1, num_axes+1))
SpansIds(nums) == nums = 1..Cardinality(nums)

SetupArray(a) ==
    Blank(IF a.array = NoArray THEN Reshape(a.nrows, a.ncols, a.rowmajor) ELSE a.array,
          a.emptycols, a.emptyrows)

ArraySetup ==
    /\ call = "subplots" /\ pc = "array_setup"
    /\ LET a == SetupArray(args)
           nums == Nums(a)
       IN /\ array' = a
          /\ num_axes' = Cardinality(nums)
          /\ IF SpansIds(nums)
                THEN /\ nrows' = Len(a)
                     /\ ncols' = Len(a[1])
                     /\ pc' = "inner_panels"
                     /\ raised' = raised
                ELSE /\ UNCHANGED <<nrows, ncols>>
                     /\ pc' = "raised"
                     /\ raised' = "InvalidArrangement"
    /\ UNCHANGED <<call, args, row_offset, col_offset, yrange, xrange, xgroups,
                   xgroups_base, ygroups, ygroups_base, allgroups_base, k, i,
                   axs, fig, ret,
                   xgroups_sorted, ygroups_sorted, innerpanels_kw>>

(***************************************************************************)
(* Panel toggles and settings.  A string of panel sides is the sequence of *)
(* its characters.  innerpanels_kw.ref[p] is the dict object the entry of  *)
(* panel p refers to and innerpanels_kw.obj[o] what that object holds; the *)
(* dicts passed in are empty, and a key not yet written reads "unset"      *)
(* (whichpanels is written for every entry before it is read).             *)
(***************************************************************************)
\* translate = lambda p: {'bottom':'b', 'top':'t', 'right':'r', 'left':'l'}.get(p, p)
translate(p) ==
    CASE p = <<"b", "o", "t", "t", "o", "m">> -> <<"b">>
      [] p = <<"t", "o", "p">>                -> <<"t">>
      [] p = <<"r", "i", "g", "h", "t">>      -> <<"r">>
      [] p = <<"l", "e", "f", "t">>           -> <<"l">>
      [] OTHER                                -> p

\* re.search('[...]', which)
Search(chars, which) == \E j \in 1..Len(which) : which[j] \in chars

\* _fill(x, default): x unless it is None.
Fill(x, default) == IF x /= "unset" THEN x ELSE default

\* "innerpanels or ''": an empty dict or string counts as ''.
OrEmpty(value) ==
    IF (value.isdict /\ value.items = << >>) \/ (~value.isdict /\ value.val = << >>)
       THEN Scalar(<< >>) ELSE value

\* An empty options dict.
NoSettings ==
    [whichpanels |-> << >>, sharex_panels |-> "unset", sharey_panels |-> "unset",
     hwidth |-> "unset", hspace |-> "unset", wwidth |-> "unset", wspace |-> "unset"]

\* The object kw_out[q] refers to: the value of the last pair whose key holds
\* q+1.  The pairs of one key share it, and so do all panels when a flat dict
\* was wrapped as {range(1, num_axes+1): value.copy()}.
Owner(items) ==
    LET keys == UNION {{OutKey(num) : num \in items[j][1]} : j \in 1..Len(items)}
    IN [q \in keys |->
          Max({j \in 1..Len(items) : \E num \in items[j][1] : OutKey(num) = q})]

\* The order kw_out.items() runs in: the keys in the order they were first
\* written (the numbers of one key ascending).
RECURSIVE InsertionOrder(_, _)
InsertionOrder(items, seen) ==
    IF items = << >> THEN << >>
    ELSE LET new == {OutKey(num) : num \in Head(items)[1]} \ seen
         IN Ascending(new) \o InsertionOrder(Tail(items), seen \cup new)

\* "for num, which in innerpanels.items():
\*      innerpanels_kw[num]['whichpanels'] = translate(which)"
RECURSIVE WritePanels(_, _, _, _)
WritePanels(order, sides, ref, obj) ==
    IF order = << >> THEN obj
    ELSE LET num == Head(order)
         IN WritePanels(Tail(order), sides, ref,
               [obj EXCEPT ![ref[num]].whichpanels = translate(sides[num].val)])

\* The wspace default of a colorbar panel on the left and/or right.
WspaceDefault(which) ==
    IF Search({"l"}, which) /\ Search({"r"}, which) THEN "ylab,nolab"
    ELSE IF Search({"l"}, which) THEN "ylab" ELSE "nolab"

\* What the innercolorbars loop writes into one entry for the sides which.
Colorbar(kw, which) ==
    LET k1 == [kw EXCEPT !.whichpanels = which]
        k2 == IF Search({"b", "t"}, which)
                 THEN [k1 EXCEPT !.sharex_panels = "False",
                                 !.hwidth = Fill(k1.hwidth, "cbar"),
                                 !.hspace = Fill(k1.hspace, "xlab")]
                 ELSE k1
    IN IF Search({"l", "r"}, which)
          THEN [k2 EXCEPT !.sharey_panels = "False",
                          !.wwidth = Fill(k2.wwidth, "cbar"),
                          !.wspace = Fill(k2.wspace, WspaceDefault(which))]
          ELSE k2

\* "for num, which in innercolorbars.items(): which = translate(which);
\*      if which: ..."
RECURSIVE WriteColorbars(_, _, _, _)
WriteColorbars(order, sides, ref, obj) ==
    IF order = << >> THEN obj
    ELSE LET num == Head(order)
             which == translate(sides[num].val)
         IN WriteColorbars(Tail(order), sides, ref,
               IF which /= << >>
                  THEN [obj EXCEPT ![ref[num]] = Colorbar(@, which)]
                  ELSE obj)

\* The three axes_dict calls and the two loops that write the toggles.
InnerPanels ==
    /\ call = "subplots" /\ pc = "inner_panels"
    /\ LET panels == OrEmpty(args.innerpanels)
           colorbars == OrEmpty(args.innercolorbars)
           ip == axes_dict(panels, FALSE, num_axes)
           ic == axes_dict(colorbars, FALSE, num_axes)
           kw == axes_dict(args.innerpanels_kw, TRUE, num_axes)
       IN IF ip.raised /= "none" \/ ic.raised /= "none" \/ kw.raised /= "none"
             THEN /\ raised' = "InvalidPropertySpec"
                  /\ pc' = "raised"
                  /\ UNCHANGED innerpanels_kw
             ELSE LET items == BuildUp(args.innerpanels_kw, TRUE, num_axes).items
                      ref == Owner(items)
                      obj0 == [o \in 1..Len(items) |-> NoSettings]
                      obj1 == WritePanels(
                                 InsertionOrder(BuildUp(panels, FALSE, num_axes).items, {}),
                                 ip.kw_out, ref, obj0)
                      obj2 == WriteColorbars(
                                 InsertionOrder(BuildUp(colorbars, FALSE, num_axes).items, {}),
                                 ic.kw_out, ref, obj1)
                  IN /\ innerpanels_kw' = [ref |-> ref, obj |-> obj2]
                     /\ raised' = raised
                     /\ pc' = "gridspec"
    /\ UNCHANGED <<call, args, array, nrows, ncols, num_axes, row_offset, col_offset,
                   yrange, xrange, xgroups, xgroups_base, ygroups, ygroups_base,
                   allgroups_base, k, i, axs, fig, ret, xgroups_sorted, ygroups_sorted>>

(***************************************************************************)
(* Extents.                                                                *)
(***************************************************************************)
\* np.where(array == id): the cells bearing id, 0-based <<row, column>>.
AxesCells(a, id) ==
    {rc \in (0..(Len(a) - 1)) \X (0..(Len(a[1]) - 1)) : a[rc[1] + 1][rc[2] + 1] = id}

\* The extents with the closed upper end, max instead of max+1.
Extent_ClosedEnd(a, n, d, offset) ==
    [p \in 0..(n - 1) |->
        LET xs == {rc[d] : rc \in AxesCells(a, p + 1)}
        IN <<offset + Min(xs), offset + Max(xs)>>]

\* offset + [min, max+1] of coordinate d of the cells of each panel, panels
\* in ascending id order.
Extent(a, n, d, offset) ==
    [p \in 0..(n - 1) |->
        LET xs == {rc[d] : rc \in AxesCells(a, p + 1)}
        IN <<offset + Min(xs), offset + Max(xs) + 1>>]

\* _gridspec_kwargs hands back the offsets; then the two extent tables.
GridSpec ==
    /\ call = "subplots" /\ pc = "gridspec"
    /\ \E ro \in 0..MaxOffset, co \in 0..MaxOffset :
          /\ row_offset' = ro
          /\ col_offset' = co
          /\ yrange' = Extent(array, num_axes, 1, ro)
          /\ xrange' = Extent(array, num_axes, 2, co)
    /\ pc' = "xgroups"
    /\ UNCHANGED <<call, args, array, nrows, ncols, num_axes, xgroups, xgroups_base,
                   ygroups, ygroups_base, allgroups_base, k, i, axs, fig, raised, ret,
                   xgroups_sorted, ygroups_sorted, innerpanels_kw>>

(***************************************************************************)
(* Shared axes: the groups and their bases.                                *)
(***************************************************************************)
\* (range[idx,:] == range).all(axis=1), then np.where: the panels whose
\* extent pair equals that of idx, in ascending order.
MatchingAxes(idx, n, range) == {m \in 0..(n - 1) : range[m] = range[idx]}

\* The sharex loop matches on xrange ...
XMatching(idx, n, xr, yr) == MatchingAxes(idx, n, xr)

\* The sharey loop would match on the column extents too.
YMatching_Columns(idx, n, xr, yr) == MatchingAxes(idx, n, xr)

\* ... and the sharey loop on yrange.
YMatching(idx, n, xr, yr) == MatchingAxes(idx, n, yr)

\* np.argmax / np.argmin return the first position of the extreme value;
\* matching_axes is ascending, so that is its smallest member.
ArgMax(S, key) ==
    CHOOSE m \in S : \A x \in S : key[x] < key[m] \/ (key[x] = key[m] /\ m <= x)

ArgMin(S, key) ==
    CHOOSE m \in S : \A x \in S : key[m] < key[x] \/ (key[x] = key[m] /\ m <= x)

\* The top-most member instead of the bottom-most.
XBase_TopMost(matching_axes, yr) ==
    ArgMin(matching_axes, [m \in matching_axes |-> yr[m][2]])

\* matching_axes[np.argmax(yrange[matching_axes, 1])]: the bottom-most.
XBase(matching_axes, yr) == ArgMax(matching_axes, [m \in matching_axes |-> yr[m][2]])

\* matching_axes[np.argmin(xrange[matching_axes, 0])]: the left-most.
YBase(matching_axes, xr) == ArgMin(matching_axes, [m \in matching_axes |-> xr[m][1]])

\* The loop without its bookkeeping of the panels already grouped.
Records_NoBookkeeping(idx, grouped, matching_axes) == Cardinality(matching_axes) > 1

\* Whether the loop records the group found at idx.
Records(idx, grouped, matching_axes) ==
    idx \notin grouped /\ Cardinality(matching_axes) > 1

\* The orders of the members of S.
Perms(S) ==
    {s \in [1..Cardinality(S) -> S] : \A a, b \in 1..Cardinality(S) : a /= b => s[a] /= s[b]}

\* matching_axes[np.argsort(key)]: ascending by key.  The default kind of
\* np.argsort is not stable, so members with equal keys come in any order.
ArgSort(S, key) ==
    {s \in Perms(S) : \A a, b \in 1..Len(s) : a < b => key[s[a]] <= key[s[b]]}

Reverse(s) == [j \in 1..Len(s) |-> s[Len(s) + 1 - j]]

\* matching_axes[np.argsort(yrange[matching_axes, 1])[::-1]]
XSorted(matching_axes, yr) ==
    {Reverse(s) : s \in ArgSort(matching_axes, [m \in matching_axes |-> yr[m][2]])}

\* matching_axes[np.argsort(xrange[matching_axes, 0])]
YSorted(matching_axes, xr) == ArgSort(matching_axes, [m \in matching_axes |-> xr[m][1]])

\* The lists xgroups_sorted can be for the recorded groups.
RECURSIVE XGroupsSorted(_, _)
XGroupsSorted(groups, yr) ==
    IF groups = << >> THEN {<< >>}
    ELSE {<<s>> \o rest : s \in XSorted(Head(groups), yr),
                          rest \in XGroupsSorted(Tail(groups), yr)}

\* The lists ygroups_sorted can be for the recorded groups.
RECURSIVE YGroupsSorted(_, _)
YGroupsSorted(groups, xr) ==
    IF groups = << >> THEN {<< >>}
    ELSE {<<s>> \o rest : s \in YSorted(Head(groups), xr),
                          rest \in YGroupsSorted(Tail(groups), xr)}

NoGroups == [groups |-> << >>, base |-> << >>, grouped |-> {}]

\* The loop "for i in range(num_axes)" of the sharex branch, from idx on.
RECURSIVE XGroupsLoop(_, _, _, _, _)
XGroupsLoop(idx, n, xr, yr, st) ==
    IF idx >= n THEN st
    ELSE LET matching_axes == XMatching(idx, n, xr, yr)
             rec == Records(idx, st.grouped, matching_axes)
         IN XGroupsLoop(idx + 1, n, xr, yr,
                [groups  |-> IF rec THEN Append(st.groups, matching_axes) ELSE st.groups,
                 base    |-> IF rec THEN Append(st.base, XBase(matching_axes, yr))
                                    ELSE st.base,
                 grouped |-> st.grouped \cup matching_axes])

\* The same loop of the sharey branch.
RECURSIVE YGroupsLoop(_, _, _, _, _)
YGroupsLoop(idx, n, xr, yr, st) ==
    IF idx >= n THEN st
    ELSE LET matching_axes == YMatching(idx, n, xr, yr)
             rec == Records(idx, st.grouped, matching_axes)
         IN YGroupsLoop(idx + 1, n, xr, yr,
                [groups  |-> IF rec THEN Append(st.groups, matching_axes) ELSE st.groups,
                 base    |-> IF rec THEN Append(st.base, YBase(matching_axes, xr))
                                    ELSE st.base,
                 grouped |-> st.grouped \cup matching_axes])

GroupX ==
    /\ call = "subplots" /\ pc = "xgroups"
    /\ LET st == IF args.sharex THEN XGroupsLoop(0, num_axes, xrange, yrange, NoGroups)
                                ELSE NoGroups
       IN /\ xgroups' = st.groups
          /\ xgroups_base' = st.base
          /\ xgroups_sorted' \in XGroupsSorted(st.groups, yrange)
    /\ pc' = "ygroups"
    /\ UNCHANGED <<call, args, array, nrows, ncols, num_axes, row_offset, col_offset,
                   yrange, xrange, ygroups, ygroups_base, allgroups_base, k, i, axs,
                   fig, raised, ret,
                   ygroups_sorted, innerpanels_kw>>

GroupY ==
    /\ call = "subplots" /\ pc = "ygroups"
    /\ LET st == IF args.sharey THEN YGroupsLoop(0, num_axes, xrange, yrange, NoGroups)
                                ELSE NoGroups
       IN /\ ygroups' = st.groups
          /\ ygroups_base' = st.base
          /\ ygroups_sorted' \in YGroupsSorted(st.groups, xrange)
    /\ pc' = "draw_setup"
    /\ UNCHANGED <<call, args, array, nrows, ncols, num_axes, row_offset, col_offset,
                   yrange, xrange, xgroups, xgroups_base, allgroups_base, k, i, axs,
                   fig, raised, ret,
                   xgroups_sorted, innerpanels_kw>>

(***************************************************************************)
(* The drawing surface.  created counts the factory calls made for each    *)
(* panel (add_subplot or panel_factory with number=p+1); sharex / sharey   *)
(* is the shared source the panel's handle was given, nsharex / nsharey    *)
(* how many times it was given one.                                        *)
(***************************************************************************)
NewFigure(n) ==
    [created |-> [p \in 0..(n - 1) |-> 0],
     sharex  |-> [p \in 0..(n - 1) |-> None],
     sharey  |-> [p \in 0..(n - 1) |-> None],
     nsharex |-> [p \in 0..(n - 1) |-> 0],
     nsharey |-> [p \in 0..(n - 1) |-> 0],
     factory |-> [p \in 0..(n - 1) |-> ""],
     kw      |-> [p \in 0..(n - 1) |-> NoSettings]]

\* fig.add_subplot / fig.panel_factory(..., number=p+1, sharex=sx, sharey=sy):
\* a new handle for panel p, told its shared sources as it is made.
AddSubplot(f, p, sx, sy) ==
    [f EXCEPT !.created[p] = @ + 1,
              !.sharex[p]  = sx,
              !.sharey[p]  = sy,
              !.nsharex[p] = IF sx = None THEN 0 ELSE 1,
              !.nsharey[p] = IF sy = None THEN 0 ELSE 1]

\* "if innerpanels_kw[p]['whichpanels']": fig.panel_factory with
\* **innerpanels_kw[p], else fig.add_subplot without the panel settings.
Factory(f, p, panels_kw) ==
    LET entry == panels_kw.obj[panels_kw.ref[p]]
    IN IF entry.whichpanels /= << >>
          THEN [f EXCEPT !.factory[p] = "panel_factory", !.kw[p] = entry]
          ELSE [f EXCEPT !.factory[p] = "add_subplot", !.kw[p] = NoSettings]

\* axs[p]._sharex_setup(sx)
SharexSetup(f, p, sx) == [f EXCEPT !.sharex[p] = sx, !.nsharex[p] = @ + 1]

\* axs[p]._sharey_setup(sy)
ShareySetup(f, p, sy) == [f EXCEPT !.sharey[p] = sy, !.nsharey[p] = @ + 1]

(***************************************************************************)
(* Draw axes: the base axes first, then every panel in id order.           *)
(***************************************************************************)
\* The first pass walking the x bases only.
AllGroupsBase_XOnly(sharex, sharey, xb, yb) == IF sharex THEN xb ELSE << >>

\* allgroups_base: the x bases if sharex, then the y bases if sharey.
AllGroupsBase(sharex, sharey, xb, yb) ==
    (IF sharex THEN xb ELSE << >>) \o (IF sharey THEN yb ELSE << >>)

DrawSetup ==
    /\ call = "subplots" /\ pc = "draw_setup"
    /\ axs' = [p \in 0..(num_axes - 1) |-> None]
    /\ fig' = NewFigure(num_axes)
    /\ allgroups_base' = AllGroupsBase(args.sharex, args.sharey, xgroups_base, ygroups_base)
    /\ k' = 1
    /\ i' = 0
    /\ pc' = "base_axes"
    /\ UNCHANGED <<call, args, array, nrows, ncols, num_axes, row_offset, col_offset,
                   yrange, xrange, xgroups, xgroups_base, ygroups, ygroups_base,
                   raised, ret,
                   xgroups_sorted, ygroups_sorted, innerpanels_kw>>

\* The first pass without its "already created" test.
AlreadyCreated_Never(a, b) == FALSE

\* "if axs[i] is not None: continue" of the first pass.
AlreadyCreated(a, b) == a[b] /= None

\* One iteration of "for i in allgroups_base".
BaseAxes ==
    /\ call = "subplots" /\ pc = "base_axes" /\ k <= Len(allgroups_base)
    /\ LET b == allgroups_base[k]
       IN IF AlreadyCreated(axs, b)
             THEN UNCHANGED <<axs, fig>>
             ELSE /\ axs' = [axs EXCEPT ![b] = Handle(b)]
                  /\ fig' = Factory(AddSubplot(fig, b, None, None), b, innerpanels_kw)
    /\ k' = k + 1
    /\ UNCHANGED <<call, pc, args, array, nrows, ncols, num_axes, row_offset,
                   col_offset, yrange, xrange, xgroups, xgroups_base, ygroups,
                   ygroups_base, allgroups_base, i, raised, ret,
                   xgroups_sorted, ygroups_sorted, innerpanels_kw>>

\* The first pass is over.
BaseAxesEnd ==
    /\ call = "subplots" /\ pc = "base_axes" /\ k > Len(allgroups_base)
    /\ pc' = "dependent_axes"
    /\ UNCHANGED <<call, args, array, nrows, ncols, num_axes, row_offset, col_offset,
                   yrange, xrange, xgroups, xgroups_base, ygroups, ygroups_base,
                   allgroups_base, k, i, axs, fig, raised, ret,
                   xgroups_sorted, ygroups_sorted, innerpanels_kw>>

\* np.where([p in g for g in groups])[0]
IGroup(p, groups) == {g \in 1..Len(groups) : p \in groups[g]}

\* The handle looked up for panel p on one axis: axs[base of its group] when
\* the axis is shared and p is in exactly one group, else None.  looked says
\* whether axs was read.
ShareAx(share, p, groups, groups_base, a) ==
    LET igroup == IGroup(p, groups)
    IN IF share /\ Cardinality(igroup) = 1
          THEN [looked |-> TRUE, ax |-> a[groups_base[CHOOSE g \in igroup : TRUE]]]
          ELSE [looked |-> FALSE, ax |-> None]

\* Adopting without the "is not" test: a base would share with itself.
Adopts_Self(own, share_ax) == share_ax /= None

\* "axs[i] is not sharex_ax": a drawn base adopts a source that is not itself.
Adopts(own, share_ax) == share_ax /= None /\ own /= share_ax

\* One iteration of "for i in range(num_axes)".
DependentAxes ==
    /\ call = "subplots" /\ pc = "dependent_axes" /\ i < num_axes
    /\ LET sx == ShareAx(args.sharex, i, xgroups, xgroups_base, axs)
           sy == ShareAx(args.sharey, i, ygroups, ygroups_base, axs)
       IN IF (sx.looked /\ sx.ax = None) \/ (sy.looked /\ sy.ax = None)
             THEN /\ raised' = "OrderingViolation"
                  /\ pc' = "raised"
                  /\ UNCHANGED <<i, axs, fig>>
             ELSE /\ IF axs[i] /= None
                        THEN /\ axs' = axs
                             /\ fig' =
                                  LET f1 == IF Adopts(axs[i], sx.ax)
                                               THEN SharexSetup(fig, i, sx.ax) ELSE fig
                                  IN IF Adopts(axs[i], sy.ax)
                                        THEN ShareySetup(f1, i, sy.ax) ELSE f1
                        ELSE /\ axs' = [axs EXCEPT ![i] = Handle(i)]
                             /\ fig' = Factory(AddSubplot(fig, i, sx.ax, sy.ax), i,
                                                innerpanels_kw)
                  /\ i' = i + 1
                  /\ UNCHANGED <<pc, raised>>
    /\ UNCHANGED <<call, args, array, nrows, ncols, num_axes, row_offset, col_offset,
                   yrange, xrange, xgroups, xgroups_base, ygroups, ygroups_base,
                   allgroups_base, k, ret,
                   xgroups_sorted, ygroups_sorted, innerpanels_kw>>

\* "ax in group": ax is a handle and group an array of pseudo-numbers, and a
\* handle equals no number.
HandleIn(ax, group) == FALSE

\* The check after the second pass; it looks at xgroups under both names.
CheckGroups ==
    /\ call = "subplots" /\ pc = "dependent_axes" /\ i >= num_axes
    /\ IF \E p \in 0..(num_axes - 1) :
             Cardinality({g \in 1..Len(xgroups) : HandleIn(axs[p], xgroups[g])}) > 1
          THEN /\ raised' = "InconsistentSharingGroup"
               /\ pc' = "raised"
          ELSE /\ raised' = raised
               /\ pc' = "done"
    /\ UNCHANGED <<call, args, array, nrows, ncols, num_axes, row_offset, col_offset,
                   yrange, xrange, xgroups, xgroups_base, ygroups, ygroups_base,
                   allgroups_base, k, i, axs, fig, ret,
                   xgroups_sorted, ygroups_sorted, innerpanels_kw>>

(***************************************************************************)
(* subplots(): the calls the model makes and its specification.            *)
(***************************************************************************)
\* subplots(array, sharex=, sharey=) with an explicit 2-D arrangement.
ArrayCalls ==
    [array : Grids \cup {Arrangement5, Arrangement6},
     nrows : {1}, ncols : {1}, rowmajor : {TRUE},
     emptycols : {{}}, emptyrows : {{}},
     sharex : BOOLEAN, sharey : BOOLEAN,
     innerpanels : {Dict(<< >>)}, innercolorbars : {Dict(<< >>)},
     innerpanels_kw : {Dict(<< >>)}]

\* subplots(nrows=, ncols=, rowmajor=, emptyrows=, emptycols=, sharex=, sharey=):
\* the sequential grid, with rows and columns of it named empty.
GridCalls ==
    UNION {[array : {NoArray},
            nrows : {s[1]}, ncols : {s[2]}, rowmajor : BOOLEAN,
            emptycols : SUBSET (1..s[2]), emptyrows : SUBSET (1..s[1]),
            sharex : BOOLEAN, sharey : BOOLEAN,
            innerpanels : {Dict(<< >>)}, innercolorbars : {Dict(<< >>)},
            innerpanels_kw : {Dict(<< >>)}] : s \in Shapes}

Locals ==
    /\ array = NoArray
    /\ nrows = 0 /\ ncols = 0 /\ num_axes = 0
    /\ row_offset = 0 /\ col_offset = 0
    /\ yrange = << >> /\ xrange = << >>
    /\ xgroups = << >> /\ xgroups_base = << >>
    /\ ygroups = << >> /\ ygroups_base = << >>
    /\ allgroups_base = << >>
    /\ k = 1 /\ i = 0
    /\ axs = << >>
    /\ fig = NewFigure(0)
    /\ raised = "none"
    /\ ret = << >>
    /\ xgroups_sorted = << >> /\ ygroups_sorted = << >>
    /\ innerpanels_kw = Unresolved

Init ==
    /\ call = "subplots" /\ pc = "array_setup"
    /\ args \in ArrayCalls \cup GridCalls
    /\ Locals

Next ==
    \/ ArraySetup
    \/ InnerPanels
    \/ GridSpec
    \/ GroupX
    \/ GroupY
    \/ DrawSetup
    \/ BaseAxes
    \/ BaseAxesEnd
    \/ DependentAxes
    \/ CheckGroups

Spec == Init /\ [][Next]_vars

(***************************************************************************)
(* Properties of subplots().                                               *)
(***************************************************************************)
Panels == 0..(num_axes - 1)

\* The groups of both axes are recorded.
GroupsRecorded ==
    call = "subplots" /\ pc \in {"draw_setup", "base_axes", "dependent_axes", "done"}

\* The second pass is running or over.
SecondPass == call = "subplots" /\ pc \in {"dependent_axes", "done"}

Finished == call = "subplots" /\ pc = "done"

\* C1: in the second pass, the base handle looked up for any panel on either
\* axis is already drawn, so the "shared axes was not already drawn" error
\* (OrderingViolation) is never raised.
C1_BaseDrawnBeforeLookup ==
    /\ raised /= "OrderingViolation"
    /\ SecondPass =>
          \A p \in Panels :
             LET sx == ShareAx(args.sharex, p, xgroups, xgroups_base, axs)
                 sy == ShareAx(args.sharey, p, ygroups, ygroups_base, axs)
             IN (sx.looked => sx.ax /= None) /\ (sy.looked => sy.ax /= None)

\* C1 witness: the second pass has handed some panel an x base and a y base
\* other than itself.
C1_Witness ==
    /\ SecondPass
    /\ \E p \in Panels :
          /\ p < i
          /\ fig.sharex[p] \notin {None, Handle(p)}
          /\ fig.sharey[p] \notin {None, Handle(p)}

\* C2: every panel is passed to the creation factory at most once at any
\* time, a handle is in the list exactly when the panel was created, and when
\* the second pass is over every panel was created exactly once and is drawn.
C2_CreatedExactlyOnce ==
    call = "subplots" =>
       /\ \A p \in DOMAIN axs :
             /\ fig.created[p] <= 1
             /\ (axs[p] /= None) <=> (fig.created[p] = 1)
       /\ (SecondPass /\ i >= num_axes) =>
             \A p \in Panels : fig.created[p] = 1 /\ axs[p] = Handle(p)

\* C2 witness: a finished layout in which one panel is the base of an x-group
\* and of a y-group and another panel was left to the second pass.
C2_Witness ==
    /\ Finished
    /\ \E p \in Panels :
          /\ \E g \in 1..Len(xgroups_base) : xgroups_base[g] = p
          /\ \E g \in 1..Len(ygroups_base) : ygroups_base[g] = p
    /\ \E q \in Panels : \A g \in 1..Len(allgroups_base) : allgroups_base[g] /= q

\* The recorded groups of one axis partition by extent: distinct entries are
\* disjoint, each has more than one member, and each is the set of all panels
\* with the extent of its members.
PartitionByExtent(groups, range) ==
    /\ \A g, h \in 1..Len(groups) : g /= h => groups[g] \cap groups[h] = {}
    /\ \A g \in 1..Len(groups) :
          /\ Cardinality(groups[g]) > 1
          /\ \A m \in groups[g] : groups[g] = {p \in Panels : range[p] = range[m]}

\* C3: the recorded x-groups are pairwise disjoint, and so are the y-groups;
\* every group has more than one member and is exactly the set of the panels
\* with its members' column extent (x) or row extent (y).
C3_GroupsPartition ==
    GroupsRecorded =>
       /\ PartitionByExtent(xgroups, xrange)
       /\ PartitionByExtent(ygroups, yrange)

\* C3 witness: two x-groups and two y-groups are recorded.
C3_Witness == GroupsRecorded /\ Len(xgroups) >= 2 /\ Len(ygroups) >= 2

\* The extents are computed.
ExtentsKnown ==
    call = "subplots" /\ pc \notin {"array_setup", "inner_panels", "gridspec", "raised"}

\* The cells of the box of panel p, offsets taken off, 0-based.
Box(p) ==
    ((yrange[p][1] - row_offset)..(yrange[p][2] - row_offset - 1))
       \X ((xrange[p][1] - col_offset)..(xrange[p][2] - col_offset - 1))

\* C4 as stated: the box of every panel contains every cell bearing its id
\* and no cell bearing another panel's id.
C4_BoxExcludesOthers ==
    ExtentsKnown =>
       \A p \in Panels :
          /\ AxesCells(array, p + 1) \subseteq Box(p)
          /\ \A q \in Panels \ {p} : AxesCells(array, q + 1) \cap Box(p) = {}

\* C4 amended: the box of every panel is the bounding box of the cells bearing
\* its id: it contains every such cell, and its first and last row and its
\* first and last column each hold one.
C4_BoxBoundsOwnCells ==
    ExtentsKnown =>
       \A p \in Panels :
          LET own == AxesCells(array, p + 1)
          IN /\ own \subseteq Box(p)
             /\ \E rc \in own : rc[1] = yrange[p][1] - row_offset
             /\ \E rc \in own : rc[1] = yrange[p][2] - row_offset - 1
             /\ \E rc \in own : rc[2] = xrange[p][1] - col_offset
             /\ \E rc \in own : rc[2] = xrange[p][2] - col_offset - 1

\* C4 witness: with nonzero offsets, the box of one panel holds a cell of
\* another.
C4_Witness ==
    /\ ExtentsKnown /\ row_offset > 0 /\ col_offset > 0
    /\ \E p \in Panels : \E q \in Panels \ {p} : AxesCells(array, q + 1) \cap Box(p) /= {}

\* The layout of arrangement a with both axes shared, groups recorded.
Shared(a) == GroupsRecorded /\ array = a /\ args.sharex /\ args.sharey

\* C5 as stated: for [[1,2],[1,3]] with sharex and sharey the x-group {2,3} is
\* recorded, the row-extent upper bounds of panels 2 and 3 are equal, and the
\* x-base is panel 2.
C5_TieOnUpperBound ==
    Shared(Arrangement5) =>
       /\ xgroups = << {1, 2} >>
       /\ yrange[1][2] = yrange[2][2]
       /\ xgroups_base = << 1 >>

\* C5 amended: for [[1,2],[1,3]] with sharex and sharey the x-group {2,3} is
\* recorded, the row-extent upper bound of panel 3 is one more than that of
\* panel 2, and the x-base is panel 3, the bottom-most.
C5_BottomMostBase ==
    Shared(Arrangement5) =>
       /\ xgroups = << {1, 2} >>
       /\ yrange[2][2] = yrange[1][2] + 1
       /\ xgroups_base = << 2 >>

\* C5 witness: that layout, finished.
C5_Witness == Shared(Arrangement5) /\ Finished

\* C6 as stated: for [[1,1,2],[3,3,2]] with sharey, panels 1 and 3 are together
\* in one y-group whose base is panel 1.
C6_SharedYGroup ==
    (GroupsRecorded /\ array = Arrangement6 /\ args.sharey) =>
       \E g \in 1..Len(ygroups) : {0, 2} \subseteq ygroups[g] /\ ygroups_base[g] = 0

\* C6 amended: for [[1,1,2],[3,3,2]] the row extents of panels 1 and 3 differ
\* and with sharey no y-group is recorded; their column extents are equal and
\* with sharex they are the one x-group, whose base is panel 3, the bottom-most.
C6_SharedXGroup ==
    (GroupsRecorded /\ array = Arrangement6) =>
       /\ yrange[0] /= yrange[2]
       /\ xrange[0] = xrange[2]
       /\ args.sharey => ygroups = << >>
       /\ args.sharex => xgroups = << {0, 2} >> /\ xgroups_base = << 2 >>

\* C6 witness: that layout with both axes shared, finished.
C6_Witness == Shared(Arrangement6) /\ Finished

\* C9 as stated: a sequential grid with rows or columns named empty is
\* accepted: the set-up does not raise, the named rows and columns are 0 and
\* the other cells keep their panels.
C9_EmptyRowsAccepted ==
    (call = "subplots" /\ args.array = NoArray /\ pc /= "array_setup") =>
       /\ raised = "none"
       /\ \A r \in 1..Len(array), c \in 1..Len(array[1]) :
             (array[r][c] = 0) <=> (r \in args.emptyrows \/ c \in args.emptycols)

\* The sharing of one axis as the surface saw it, for groups with bases base:
\* each member but the base got the base's handle once, and its extent on the
\* axis is that of the base; the base and the panels of no group got nothing.
Wired(share, groups, base, range, source, count) ==
    IF share
       THEN /\ \A g \in 1..Len(groups) : \A m \in groups[g] :
                  IF m = base[g]
                     THEN source[m] = None /\ count[m] = 0
                     ELSE /\ source[m] = Handle(base[g])
                          /\ count[m] = 1
                          /\ range[m] = range[base[g]]
            /\ \A p \in Panels :
                  (\A g \in 1..Len(groups) : p \notin groups[g]) =>
                     source[p] = None /\ count[p] = 0
       ELSE \A p \in Panels : source[p] = None /\ count[p] = 0

\* C10: when the layout is finished, on each shared axis every member of a
\* group other than its base has the base's handle as its shared source, set
\* exactly once, the base and the panels of no group have none, and on an
\* axis that is not shared no panel has one.
C10_SharedSources ==
    Finished =>
       /\ Wired(args.sharex, xgroups, xgroups_base, xrange, fig.sharex, fig.nsharex)
       /\ Wired(args.sharey, ygroups, ygroups_base, yrange, fig.sharey, fig.nsharey)

\* C10 witness: a finished layout where a base of the first pass adopted a
\* source afterwards and a panel of the second pass was created with one.
C10_Witness ==
    /\ Finished
    /\ \E p, q \in Panels :
          /\ \E g \in 1..Len(allgroups_base) : allgroups_base[g] = p
          /\ fig.nsharex[p] + fig.nsharey[p] = 1
          /\ \A g \in 1..Len(allgroups_base) : allgroups_base[g] /= q
          /\ fig.nsharex[q] = 1 /\ fig.nsharey[q] = 1

\* C12 as stated: the base of every recorded group is the first member of the
\* group's recorded sort order (x-groups by row-extent upper bound descending,
\* y-groups by column-extent lower bound ascending), ties on the key included.
C12_BaseIsFirstSorted ==
    GroupsRecorded =>
       /\ \A g \in 1..Len(xgroups) :
             /\ xgroups_sorted[g][1] = xgroups_base[g]
             /\ \A a, b \in 1..Len(xgroups_sorted[g]) :
                   a < b => yrange[xgroups_sorted[g][a]][2] >= yrange[xgroups_sorted[g][b]][2]
       /\ \A g \in 1..Len(ygroups) :
             /\ ygroups_sorted[g][1] = ygroups_base[g]
             /\ \A a, b \in 1..Len(ygroups_sorted[g]) :
                   a < b => xrange[ygroups_sorted[g][a]][1] <= xrange[ygroups_sorted[g][b]][1]

(***************************************************************************)
(* subplots() with inner panels and colorbars.                             *)
(***************************************************************************)
Sides == {<< >>, <<"b">>, <<"l", "r">>}

\* {1: side, ..., n: side}
PerPanel(n, S) ==
    {Dict([id \in 1..n |-> <<{id}, Scalar(f[id])>>]) : f \in [1..n -> S]}

\* innerpanels= and innercolorbars=: left out, one string for all panels, or a
\* mapping of two or three axes numbers to strings.
SideValues ==
    {Dict(<< >>)} \cup {Scalar(w) : w \in Sides \cup {<<"b", "o", "t", "t", "o", "m">>}}
       \cup PerPanel(2, Sides) \cup PerPanel(3, Sides)

\* innerpanels_kw=: left out (a flat, empty options object), or a mapping of
\* axes numbers to options objects.
KwValues ==
    {Dict(<< >>),
     Dict(<< <<{1}, Dict(<< >>)>>, <<{2}, Dict(<< >>)>> >>),
     Dict(<< <<{1}, Dict(<< >>)>>, <<{2}, Dict(<< >>)>>, <<{3}, Dict(<< >>)>> >>),
     Dict(<< <<{1, 2}, Dict(<< >>)>>, <<{3}, Dict(<< >>)>> >>)}

PanelCallsInner ==
    [array : {<< <<1, 2>> >>, Arrangement5},
     nrows : {1}, ncols : {1}, rowmajor : {TRUE},
     emptycols : {{}}, emptyrows : {{}},
     sharex : {TRUE}, sharey : {TRUE},
     innerpanels : SideValues, innercolorbars : SideValues,
     innerpanels_kw : KwValues]

InitPanels ==
    /\ call = "subplots" /\ pc = "array_setup"
    /\ args \in PanelCallsInner
    /\ Locals

SpecPanels == InitPanels /\ [][Next]_vars

\* The panel settings are resolved.
Resolved == call = "subplots" /\ pc \notin {"array_setup", "inner_panels", "raised"}

\* The string value gives panel p: the string itself, or the one under the
\* key that holds p+1.
SideOf(value, p) ==
    IF ~value.isdict THEN value.val
    ELSE IF value.items = << >> THEN << >>
    ELSE value.items[Max({j \in 1..Len(value.items) : p + 1 \in value.items[j][1]})][2].val

\* The sides asked for panel p: its colorbar sides if any, else its panel sides.
OwnSides(p) ==
    LET c == translate(SideOf(args.innercolorbars, p))
    IN IF c /= << >> THEN c ELSE translate(SideOf(args.innerpanels, p))

\* C11 as stated: with innerpanels_kw one flat options object (or left out),
\* the entries of the panels are independent: every panel's entry holds the
\* sides asked for that panel, whatever was written for the others, and a panel
\* is created by the panel factory, with those sides, exactly when its own
\* sides are non-empty.
C11_EntriesIndependent ==
    (Resolved /\ TRUE \notin {args.innerpanels_kw.items[j][2].isdict :
                                j \in 1..Len(args.innerpanels_kw.items)}) =>
       \A p \in Panels :
          /\ innerpanels_kw.obj[innerpanels_kw.ref[p]].whichpanels = OwnSides(p)
          /\ (p \in DOMAIN axs /\ axs[p] /= None) =>
                IF OwnSides(p) /= << >>
                   THEN fig.factory[p] = "panel_factory" /\ fig.kw[p].whichpanels = OwnSides(p)
                   ELSE fig.factory[p] = "add_subplot"

(***************************************************************************)
(* The calls of axes_dict the model makes and its specification.           *)
(***************************************************************************)
AxesDict ==
    /\ call = "axes_dict" /\ pc = "call"
    /\ LET r == axes_dict(args.value, args.kw, num_axes)
       IN /\ ret' = r
          /\ raised' = r.raised
          /\ pc' = IF r.raised = "none" THEN "returned" ELSE "raised"
    /\ UNCHANGED <<call, args, array, nrows, ncols, num_axes, row_offset, col_offset,
                   yrange, xrange, xgroups, xgroups_base, ygroups, ygroups_base,
                   allgroups_base, k, i, axs, fig,
                   xgroups_sorted, ygroups_sorted, innerpanels_kw>>

\* The keys of the generated mappings.
Keys == (SUBSET (1..MaxPanels)) \ {{}}

\* The sequences of at most MaxKeys pairs with values in Items, keys distinct.
Mappings(Items) ==
    {m \in UNION {[1..len -> Keys \X Items] : len \in 0..MaxKeys} :
        \A a, b \in 1..Len(m) : a /= b => m[a][1] /= m[b][1]}

\* axes_dict(value, False): a string, or a mapping of axes numbers to strings.
PlainCalls ==
    [value : {Scalar("a")} \cup {Dict(m) : m \in Mappings({Scalar("a"), Scalar("b")})},
     kw : {FALSE}]

\* axes_dict(value, True): a mapping whose values are settings or dicts.
KwCalls ==
    [value : {Dict(m) : m \in Mappings({Scalar("a"), Dict(<< >>)})},
     kw : {TRUE}]

InitAxesDict ==
    /\ call = "axes_dict" /\ pc = "call"
    /\ args \in PlainCalls \cup KwCalls
    /\ array = NoArray
    /\ nrows = 0 /\ ncols = 0
    /\ num_axes \in 1..MaxPanels
    /\ row_offset = 0 /\ col_offset = 0
    /\ yrange = << >> /\ xrange = << >>
    /\ xgroups = << >> /\ xgroups_base = << >>
    /\ ygroups = << >> /\ ygroups_base = << >>
    /\ allgroups_base = << >>
    /\ k = 1 /\ i = 0
    /\ axs = << >>
    /\ fig = NewFigure(0)
    /\ raised = "none"
    /\ ret = << >>
    /\ xgroups_sorted = << >> /\ ygroups_sorted = << >>
    /\ innerpanels_kw = Unresolved

NextAxesDict == AxesDict

SpecAxesDict == InitAxesDict /\ [][NextAxesDict]_vars

\* A call axes_dict(mapping, False) is over.
PlainDone ==
    call = "axes_dict" /\ pc \in {"returned", "raised"} /\ ~args.kw /\ args.value.isdict

\* The axes numbers of 1..num_axes no key of the mapping holds.
Absent == {id \in 1..num_axes : \A j \in 1..Len(args.value.items) : id \notin args.value.items[j][1]}

\* The axes numbers the keys of the mapping hold.
Present == UNION {args.value.items[j][1] : j \in 1..Len(args.value.items)}

\* The dense mapping: 0..num_axes-1, each panel with the value of a key that
\* holds its number.
Dense ==
    /\ pc = "returned"
    /\ DOMAIN ret.kw_out = 0..(num_axes - 1)
    /\ \A q \in 0..(num_axes - 1) :
          \E j \in 1..Len(args.value.items) :
             q + 1 \in args.value.items[j][1] /\ ret.kw_out[q] = args.value.items[j][2]

Labels7 == <<1, 1, 0, 2>>

\* re.sub('^(.*)panel$', r'\1', name)
Side(name) ==
    CASE name = "bottompanel" -> "bottom"
      [] name = "rightpanel"  -> "right"
      [] name = "leftpanel"   -> "left"
      [] OTHER                -> name

\* np.unique(panels): the distinct labels, ascending.
Unique(panels) == Ascending({panels[j] : j \in 1..Len(panels)})

\* np.where(panels == n), 0-based.
Where(panels, n) == {j - 1 : j \in {h \in 1..Len(panels) : panels[h] = n}}

\* slice(offset + min(idx), offset + max(idx) + 1) for label n
StripSlice(side, panels, n) ==
    LET offset == IF side \in {"left", "right"} THEN row_offset ELSE col_offset
        idx == Where(panels, n)
    IN [start |-> offset + Min(idx), stop |-> offset + Max(idx) + 1]

\* "if not panels: return", else into the loop.
PanelAddEnter ==
    /\ call = "_paneladd" /\ pc = "call"
    /\ pc' = IF args.panels = << >> THEN "returned" ELSE "loop"
    /\ k' = 1
    /\ ret' = << >>
    /\ UNCHANGED <<call, args, array, nrows, ncols, num_axes, row_offset, col_offset,
                   yrange, xrange, xgroups, xgroups_base, ygroups, ygroups_base,
                   allgroups_base, i, axs, fig, raised,
                   xgroups_sorted, ygroups_sorted, innerpanels_kw>>

\* One iteration of "for n in np.unique(panels).flat".
PanelAddStrip ==
    /\ call = "_paneladd" /\ pc = "loop" /\ k <= Len(Unique(args.panels))
    /\ LET side == Side(args.name)
           n == Unique(args.panels)[k]
           idx == StripSlice(side, args.panels, n)
       IN ret' = Append(ret, [panel_side |-> side, start |-> idx.start, stop |-> idx.stop])
    /\ k' = k + 1
    /\ UNCHANGED <<call, pc, args, array, nrows, ncols, num_axes, row_offset,
                   col_offset, yrange, xrange, xgroups, xgroups_base, ygroups,
                   ygroups_base, allgroups_base, i, axs, fig, raised,
                   xgroups_sorted, ygroups_sorted, innerpanels_kw>>

\* setattr(fig, name, axes_list(axsp))
PanelAddSet ==
    /\ call = "_paneladd" /\ pc = "loop" /\ k > Len(Unique(args.panels))
    /\ fig' = [name |-> args.name, axes |-> ret]
    /\ pc' = "returned"
    /\ UNCHANGED <<call, args, array, nrows, ncols, num_axes, row_offset, col_offset,
                   yrange, xrange, xgroups, xgroups_base, ygroups, ygroups_base,
                   allgroups_base, k, i, axs, raised, ret,
                   xgroups_sorted, ygroups_sorted, innerpanels_kw>>

\* _paneladd('bottompanel' | 'rightpanel' | 'leftpanel', labels)
PanelCalls ==
    [name : {"bottompanel", "rightpanel", "leftpanel"},
     panels : {Labels7} \cup UNION {[1..len -> 0..MaxLabel] : len \in 0..MaxStripLen}]

InitPanelAdd ==
    /\ call = "_paneladd" /\ pc = "call"
    /\ args \in PanelCalls
    /\ array = NoArray
    /\ nrows = 0 /\ ncols = 0 /\ num_axes = 0
    /\ row_offset \in 0..MaxOffset /\ col_offset \in 0..MaxOffset
    /\ yrange = << >> /\ xrange = << >>
    /\ xgroups = << >> /\ xgroups_base = << >>
    /\ ygroups = << >> /\ ygroups_base = << >>
    /\ allgroups_base = << >>
    /\ k = 1 /\ i = 0
    /\ axs = << >>
    /\ fig = [name |-> "", axes |-> << >>]
    /\ raised = "none"
    /\ ret = << >>
    /\ xgroups_sorted = << >> /\ ygroups_sorted = << >>
    /\ innerpanels_kw = Unresolved

NextPanelAdd ==
    \/ PanelAddEnter
    \/ PanelAddStrip
    \/ PanelAddSet

SpecPanelAdd == InitPanelAdd /\ [][NextPanelAdd]_vars

\* The strip the claim expects for label n on the edge of the call.
Expected(n) ==
    LET offset == IF args.name = "bottompanel" THEN col_offset ELSE row_offset
        at == {j - 1 : j \in {h \in 1..Len(args.panels) : args.panels[h] = n}}
    IN [panel_side |-> Side(args.name), start |-> offset + Min(at), stop |-> offset + Max(at) + 1]

\* C7 as stated: the allocator requests exactly one strip per distinct nonzero
\* label, with span [offset + min(index), offset + max(index) + 1), and none
\* for the positions labelled 0; labels [1,1,0,2] on the bottom edge with
\* column offset 0 give exactly the strips [0,2) and [3,4).
C7_NoStripForZero ==
    (call = "_paneladd" /\ pc = "returned") =>
       LET nonzero == {args.panels[j] : j \in 1..Len(args.panels)} \ {0}
       IN /\ Len(ret) = Cardinality(nonzero)
          /\ {ret[j] : j \in 1..Len(ret)} = {Expected(n) : n \in nonzero}
          /\ (args.panels = Labels7 /\ args.name = "bottompanel" /\ col_offset = 0) =>
                ret = << [panel_side |-> "bottom", start |-> 0, stop |-> 2],
                         [panel_side |-> "bottom", start |-> 3, stop |-> 4] >>

====
